---- MODULE Spec2Model ----
(***************************************************************************)
(* Model of the model-provisioning service UpdateFromLocal                 *)
(* (web/goserver/src/server/domains/model/pkg/service/update_from_local.go)*)
(* One worker goroutine per invocation; the document store and the model   *)
(* directories are shared by all workers.                                  *)
(***************************************************************************)
EXTENDS Integers, Sequences, FiniteSets, TLC

\* The provisioning requests that may be in flight together.
Runs == {"r1", "r2"}

\* downloadWithCheck: for i := 0; i < 10; i++
MaxAttempts == 10

\* Longest dependency source explored by the one-request specification.
MaxUrlLen == 5

\* Failures the environment injects while two requests run together.
MaxFaults == 2

-----------------------------------------------------------------------------
(* Strings that are parsed are sequences of one-character strings.         *)

Letters == {"h"}
Digits == {"1"}
\* The characters of the dependency sources explored.
UrlAlphabet == Letters \cup {":", "/"}

RECURSIVE StringsUpTo(_)
StringsUpTo(n) ==
    IF n = 0 THEN {<<>>}
    ELSE LET shorter == StringsUpTo(n - 1)
         IN  shorter \cup {Append(s, c) : s \in {t \in shorter : Len(t) = n - 1}, c \in UrlAlphabet}

HasPrefix(s, p) == Len(s) >= Len(p) /\ SubSeq(s, 1, Len(p)) = p

\* Index of the first / last occurrence of character c in s, 0 when absent.
Index(s, c) ==
    IF \E i \in 1..Len(s) : s[i] = c
    THEN CHOOSE i \in 1..Len(s) : s[i] = c /\ \A j \in 1..(i - 1) : s[j] # c
    ELSE 0

LastIndex(s, c) ==
    IF \E i \in 1..Len(s) : s[i] = c
    THEN CHOOSE i \in 1..Len(s) : s[i] = c /\ \A j \in (i + 1)..Len(s) : s[j] # c
    ELSE 0

\* net/url getScheme: letters always continue the scheme, digits continue it
\* except in first position, ":" ends it (an error in first position), any
\* other character means there is no scheme.
getScheme(rawURL) ==
    LET stops == {i \in 1..Len(rawURL) :
                     ~(rawURL[i] \in Letters \/ (rawURL[i] \in Digits /\ i > 1))}
    IN  IF stops = {} THEN [ok |-> TRUE, scheme |-> <<>>, rest |-> rawURL]
        ELSE LET i == CHOOSE k \in stops : \A m \in stops : k <= m
             IN  IF rawURL[i] = ":"
                 THEN IF i = 1
                      THEN [ok |-> FALSE, scheme |-> <<>>, rest |-> <<>>]
                      ELSE [ok |-> TRUE, scheme |-> SubSeq(rawURL, 1, i - 1),
                            rest |-> SubSeq(rawURL, i + 1, Len(rawURL))]
                 ELSE [ok |-> TRUE, scheme |-> <<>>, rest |-> rawURL]

\* net/url validOptionalPort: "" or ":" followed by digits only.
validOptionalPort(port) ==
    \/ port = <<>>
    \/ /\ port[1] = ":"
       /\ \A i \in 2..Len(port) : port[i] \in Digits

\* net/url parseHost (no userinfo, no IPv6 literal in the alphabet).
parseHost(host) ==
    LET i == LastIndex(host, ":")
    IN  IF i # 0 /\ ~validOptionalPort(SubSeq(host, i, Len(host)))
        THEN [ok |-> FALSE, host |-> <<>>]
        ELSE [ok |-> TRUE, host |-> host]

UrlError == [ok |-> FALSE, Scheme |-> <<>>, Host |-> <<>>]

\* net/url parse(rawURL, viaRequest): url.ParseRequestURI is parse(s, true),
\* url.Parse is parse(s, false) (the alphabet has no "#", "?" or "*").
parse(rawURL, viaRequest) ==
    IF rawURL = <<>> /\ viaRequest THEN UrlError
    ELSE LET gs == getScheme(rawURL)
             rest == gs.rest
         IN  IF ~gs.ok THEN UrlError
             ELSE IF ~HasPrefix(rest, <<"/">>) /\ gs.scheme # <<>>
             THEN [ok |-> TRUE, Scheme |-> gs.scheme, Host |-> <<>>]
             ELSE IF ~HasPrefix(rest, <<"/">>) /\ viaRequest
             THEN UrlError
             ELSE IF /\ ~HasPrefix(rest, <<"/">>)
                     /\ LET cut == Index(rest, "/")
                            segment == IF cut = 0 THEN rest ELSE SubSeq(rest, 1, cut - 1)
                        IN  Index(segment, ":") # 0
             THEN UrlError
             ELSE IF /\ gs.scheme # <<>> \/ (~viaRequest /\ ~HasPrefix(rest, <<"/", "/", "/">>))
                     /\ HasPrefix(rest, <<"/", "/">>)
             THEN LET after == SubSeq(rest, 3, Len(rest))
                      cut == Index(after, "/")
                      authority == IF cut = 0 THEN after ELSE SubSeq(after, 1, cut - 1)
                      ph == parseHost(authority)
                  IN  IF ph.ok
                      THEN [ok |-> TRUE, Scheme |-> gs.scheme, Host |-> ph.host]
                      ELSE UrlError
             ELSE [ok |-> TRUE, Scheme |-> gs.scheme, Host |-> <<>>]

\* Mutant of isValidUrl: the host is not required.
isValidUrlNoHost(toTest) ==
    /\ parse(toTest, TRUE).ok
    /\ LET u == parse(toTest, FALSE)
       IN  u.ok /\ u.Scheme # <<>>

isValidUrl(toTest) ==
    /\ parse(toTest, TRUE).ok
    /\ LET u == parse(toTest, FALSE)
       IN  u.ok /\ u.Scheme # <<>> /\ u.Host # <<>>

-----------------------------------------------------------------------------
(* Data: manifest, store entities, responses.                              *)

\* A value that may be absent (a nil interface) is a sequence of length <= 1.
Nil == <<>>

\* ModelYml with every field at its Go zero value.
ZeroModelYml ==
    [Class |-> "", Name |-> "", Problem |-> "", Dependencies |-> <<>>,
     Metrics |-> <<>>, GpuNum |-> 0, Config |-> "",
     HyperParameters |-> [Basic |-> [BatchSize |-> 0, BaseLearningRate |-> 0, Epochs |-> 0]]]

ZeroProblem == [Id |-> 0, Title |-> "", Dir |-> ""]
ZeroBuild == [Id |-> 0, ProblemId |-> 0, Name |-> "", Status |-> ""]

\* The problems the store holds; this service looks problems up, never creates them.
Problems == {[Id |-> 1, Title |-> "Animal Classifier", Dir |-> "data"]}

\* filepath.Join: empty elements are ignored; a path is the sequence of its elements.
Join(a, b) == a \o b
Elem(name) == IF name = "" THEN <<>> ELSE <<name>>

\* u.StringToFolderName on the names the manifests use.
StringToFolderName(name) ==
    CASE name = "Cats vs Dogs" -> "cats-vs-dogs"
      [] OTHER -> name

HexDigits == <<"0", "1", "2", "3", "4", "5", "6", "7", "8", "9", "a", "b", "c", "d", "e", "f">>

\* primitive.ObjectID.Hex() on the low byte of the id.
Hex(id) == HexDigits[(id \div 16) + 1] \o HexDigits[(id % 16) + 1]

ZeroModel ==
    [Id |-> 0, BatchSize |-> 0, ConfigPath |-> <<>>, ProblemId |-> 0, Description |-> "",
     Dir |-> <<>>, Epochs |-> 0, Evaluates |-> <<>>, Framework |-> "", Metrics |-> <<>>,
     ModulesYamlPath |-> <<>>, Name |-> "",
     Scripts |-> [Train |-> <<>>, Eval |-> <<>>], SnapshotPath |-> <<>>, Status |-> "",
     TemplatePath |-> <<>>, TrainingGpuNum |-> 0]

\* hex.EncodeToString: two lowercase digits per byte.
RECURSIVE EncodeToString(_)
EncodeToString(bytes) ==
    IF bytes = <<>> THEN ""
    ELSE Hex(Head(bytes)) \o EncodeToString(Tail(bytes))

-----------------------------------------------------------------------------
(* The manifest files a request may point at.                              *)

RemoteSource == <<"h", ":", "/", "/", "h">>
LocalSource == <<"h">>

RemoteDep == [Source |-> RemoteSource, Destination |-> "weights.bin", Sha256 |-> "ab", Size |-> 1]
LocalDep == [Source |-> LocalSource, Destination |-> "labels.txt", Sha256 |-> "", Size |-> 0]

CatsYml(epochs, deps) ==
    [Class |-> "classification", Name |-> "Cats vs Dogs", Problem |-> "Animal Classifier",
     Dependencies |-> deps, Metrics |-> <<"accuracy">>, GpuNum |-> 1, Config |-> "config.py",
     HyperParameters |-> [Basic |-> [BatchSize |-> 8, BaseLearningRate |-> 1, Epochs |-> epochs]]]

\* read: whether ioutil.ReadFile / yaml.Unmarshal succeed on the file;
\* yml: the fields yaml.Unmarshal decodes from its content.
ManifestFiles ==
    { [Path |-> "cats.yaml", read |-> "ok", yml |-> CatsYml(1, <<RemoteDep, LocalDep>>)],
      [Path |-> "cats2.yaml", read |-> "ok", yml |-> CatsYml(2, <<>>)],
      [Path |-> "orphan.yaml", read |-> "ok",
       yml |-> [CatsYml(1, <<>>) EXCEPT !.Problem = "No Such Problem"]],
      [Path |-> "missing.yaml", read |-> "readErr", yml |-> ZeroModelYml],
      [Path |-> "garbage.yaml", read |-> "parseErr", yml |-> ZeroModelYml],
      \* gpu_num: "two" is a type error: yaml.v2 reports it and decodes the other fields
      [Path |-> "badgpu.yaml", read |-> "parseErr",
       yml |-> [CatsYml(1, <<>>) EXCEPT !.GpuNum = 0]] }

\* One manifest with a single dependency whose source is s.
FetchFile(s) ==
    [Path |-> "fetch.yaml", read |-> "ok",
     yml |-> CatsYml(1, <<[Source |-> s, Destination |-> "weights.bin", Sha256 |-> "ab", Size |-> 1]>>)]

\* A manifest whose expected digest is written in upper case.
UpperCaseFile ==
    [Path |-> "upper.yaml", read |-> "ok",
     yml |-> CatsYml(3, <<[RemoteDep EXCEPT !.Sha256 = "AB"]>>)]

DepNames == <<"dep1", "dep2">>
FixedSteps == {"config", "modules", "metrics", "template"}
StepsOf(yml) == FixedSteps \cup {DepNames[k] : k \in 1..Len(yml.Dependencies)}

-----------------------------------------------------------------------------
(* The document store collaborator (request/response exchanges).           *)

\* problemFindOne: the problem with this title, or an error answer.
problemFindOne(title, fails) ==
    LET found == {p \in Problems : p.Title = title}
    IN  IF fails \/ found = {}
        THEN [Data |-> ZeroProblem, Err |-> [Code |-> 1]]
        ELSE [Data |-> CHOOSE p \in found : TRUE, Err |-> [Code |-> 0]]

\* buildFindOne: a build of the problem with this name, or an error answer.
buildFindOne(bs, problemId, name, fails) ==
    LET found == {b \in bs : b.ProblemId = problemId /\ b.Name = name}
    IN  IF fails \/ found = {}
        THEN [Data |-> ZeroBuild, Err |-> [Code |-> 1]]
        ELSE [Data |-> CHOOSE b \in found : \A c \in found : b.Id <= c.Id, Err |-> [Code |-> 0]]

\* buildInsertOne: a new build document with a fresh id.
buildInsertOne(bs, req, fails) ==
    IF fails
    THEN [Data |-> ZeroBuild, Err |-> [Code |-> 1], builds |-> bs]
    ELSE LET b == [Id |-> Cardinality(bs) + 1, ProblemId |-> req.ProblemId,
                   Name |-> req.Name, Status |-> req.Status]
         IN  [Data |-> b, Err |-> [Code |-> 0], builds |-> bs \cup {b}]

\* modelUpdateUpsert: replace the document with the same (problem, name), or insert.
modelUpdateUpsert(ms, req, fails) ==
    IF fails
    THEN [Data |-> ZeroModel, Err |-> [Code |-> 1], models |-> ms]
    ELSE LET same == {m \in ms : m.ProblemId = req.ProblemId /\ m.Name = req.Name}
             id == IF same = {} THEN Cardinality(ms) + 1 ELSE (CHOOSE m \in same : TRUE).Id
             doc == [f \in DOMAIN ZeroModel |->
                        IF f = "Id" THEN id
                        ELSE IF f \in DOMAIN req THEN req[f] ELSE ZeroModel[f]]
         IN  [Data |-> doc, Err |-> [Code |-> 0], models |-> (ms \ same) \cup {doc}]

-----------------------------------------------------------------------------
(* State.                                                                  *)

VARIABLES
    disk,          \* the manifest files requests may point at
    faults,        \* failures the environment may still inject, Unlimited for no limit
    pc,            \* position of each worker goroutine
    req,           \* the manifest file at req.Path
    templateYaml,  \* UpdateFromLocal: templateYaml
    problem,       \* UpdateFromLocal: problem
    defaultBuild,  \* UpdateFromLocal: defaultBuild
    model,         \* UpdateFromLocal: model
    d,             \* copyDependencies: index of the dependency being handled
    i,             \* downloadWithCheck: loop counter
    verified,      \* downloadWithCheck: the loop was left by the break of line 258
    attempts,      \* history: calls of u.DownloadFile for the current dependency
    dlErr,         \* what downloadWithCheck returned to copyDependencies
    responseChan,  \* responses the caller has received from the returned channel
    builds,        \* store: build documents
    models,        \* store: model documents
    fs,            \* paths written below the problem directories
    before,        \* history: the runs that had finished when each run was invoked
    issued,        \* history: store requests and file writes each run has issued
    storeFailed,   \* history: store requests of each run that the store failed
    attempted,     \* history: provisioning steps each run has attempted
    failed,        \* history: some provisioning step of the run did not produce its file
    downloaded,    \* history: dependencies each run fetched over the network
    copied         \* history: dependencies each run copied from the manifest's directory

vars == <<disk, faults, pc, req, templateYaml, problem, defaultBuild, model, d, i, verified,
          attempts, dlErr,
          responseChan, builds, models, fs, before, issued, storeFailed, attempted, failed,
          downloaded, copied>>

NoFile == [Path |-> "", read |-> "ok", yml |-> ZeroModelYml]

\* downloadWithCheck has not returned / returned nil / returned an error.
NotReturned == "not returned"
NilError == "nil"
AnError == "error"

Unlimited == 0 - 1

\* The environment makes an outcome happen; a failing one uses up the budget.
Inject(isFault) ==
    /\ isFault => faults # 0
    /\ faults' = IF isFault /\ faults > 0 THEN faults - 1 ELSE faults

InitState(files, active, budget) ==
    /\ disk = files
    /\ faults = budget
    /\ pc = [r \in Runs |-> IF r \in active THEN "idle" ELSE "off"]
    /\ req = [r \in Runs |-> NoFile]
    /\ templateYaml = [r \in Runs |-> ZeroModelYml]
    /\ problem = [r \in Runs |-> ZeroProblem]
    /\ defaultBuild = [r \in Runs |-> ZeroBuild]
    /\ model = [r \in Runs |-> ZeroModel]
    /\ d = [r \in Runs |-> 0]
    /\ i = [r \in Runs |-> 0]
    /\ verified = [r \in Runs |-> FALSE]
    /\ attempts = [r \in Runs |-> 0]
    /\ dlErr = [r \in Runs |-> NotReturned]
    /\ responseChan = [r \in Runs |-> <<>>]
    /\ builds = {}
    /\ models = {}
    /\ fs = {}
    /\ before = [r \in Runs |-> {}]
    /\ issued = [r \in Runs |-> {}]
    /\ storeFailed = [r \in Runs |-> {}]
    /\ attempted = [r \in Runs |-> {}]
    /\ failed = [r \in Runs |-> FALSE]
    /\ downloaded = [r \in Runs |-> {}]
    /\ copied = [r \in Runs |-> {}]

\* Two requests that may run together, over the manifest files above, with a
\* bounded number of failures.
Init == InitState(ManifestFiles, Runs, MaxFaults)

\* One request with any number of failures, over the manifest files above or
\* over one manifest whose dependency source is any short string.
InitOne ==
    \/ InitState(ManifestFiles \cup {UpperCaseFile}, {"r1"}, Unlimited)
    \/ \E s \in StringsUpTo(MaxUrlLen) : InitState({FetchFile(s)}, {"r1"}, Unlimited)

-----------------------------------------------------------------------------
(* Helpers of the pipeline.                                                *)

\* getTemplateYaml: read and decode errors are logged, the descriptor is returned.
getTemplateYaml(file) ==
    IF file.read = "readErr" THEN ZeroModelYml ELSE file.yml

\* Mutant of getProblem: an answer with error code 1 is not taken as an error.
getProblemLenient(problemResp) ==
    [problem |-> problemResp.Data, err |-> problemResp.Err.Code > 1]

\* Mutant of getProblem: the error of the answer is dropped.
getProblemNoError(problemResp) ==
    [problem |-> problemResp.Data, err |-> FALSE]

\* getProblem, lines 232-236: the answer's data and whether err is non-nil.
getProblem(problemResp) ==
    [problem |-> problemResp.Data, err |-> problemResp.Err.Code > 0]

\* copyFiles: Stat and Copy errors are returned, a CopyDir error is only logged.
CopyOutcomes == {"ok", "dirOk", "statErr", "copyErr", "copyDirErr"}
copyFiles(outcome) ==
    [err |-> outcome \in {"statErr", "copyErr"}, written |-> outcome \in {"ok", "dirOk"}]

\* saveMetrics: every error is logged and the function goes on.
MetricsOutcomes == {"ok", "mkdirErr", "createErr", "writeErr"}

\* u.DownloadFile: a network error, or a file of nBytes bytes with digest sum
\* (sum is Nil when the file cannot be read back).
DownloadOutcomes ==
    {[err |-> TRUE, nBytes |-> 0, sum |-> Nil]}
    \cup {[err |-> FALSE, nBytes |-> n, sum |-> sm] : n \in {1, 2}, sm \in {Nil, <<171>>, <<205>>}}

\* The remote file as the server holds it; any other outcome is a failed transfer.
IntactDownload == [err |-> FALSE, nBytes |-> 1, sum |-> <<171>>]

\* getSha265: "" when the file cannot be opened or read.
getSha265(out) == IF out.sum = Nil THEN "" ELSE EncodeToString(out.sum)

\* downloadWithCheck, lines 241-258: the attempt reaches the break.
attemptAccepted(out, dep) ==
    /\ ~out.err
    /\ out.nBytes = dep.Size
    /\ getSha265(out) = dep.Sha256

\* Mutant of loopContinues: one pass too many.
loopContinuesOnceMore(n) == n <= MaxAttempts

\* downloadWithCheck, line 240: the loop condition.
loopContinues(n) == n < MaxAttempts

\* downloadWithCheck, line 260: the value returned after the loop.
downloadResult(wasVerified) == NilError

prepareModel(modelYml, buildId, prob) ==
    LET modelFolderName == StringToFolderName(modelYml.Name)
        dir == Join(Elem(prob.Dir), Elem(modelFolderName))
        metrics == (Hex(buildId) :> modelYml.Metrics)
        evaluates == (Hex(buildId) :> [Metrics |-> modelYml.Metrics, Status |-> "evaluateDefault"])
    IN  [ZeroModel EXCEPT
            !.BatchSize = modelYml.HyperParameters.Basic.BatchSize,
            !.ConfigPath = Join(dir, Elem(modelYml.Config)),
            !.ProblemId = prob.Id,
            !.Description = "",
            !.Dir = dir,
            !.Epochs = modelYml.HyperParameters.Basic.Epochs,
            !.Evaluates = evaluates,
            !.ModulesYamlPath = Join(dir, <<"modules.yaml">>),
            !.Name = modelYml.Name,
            !.Scripts = [Train |-> Join(dir, <<"train.py">>), Eval |-> Join(dir, <<"eval.py">>)],
            !.SnapshotPath = Join(dir, <<"snapshot.pth">>),
            !.Status = "trainDefault",
            !.TemplatePath = Join(dir, <<"template.yaml">>),
            !.TrainingGpuNum = modelYml.GpuNum]

\* Mutant of upsertRequest: Epochs is filled from the batch size.
upsertRequestWrongEpochs(m) ==
    [f \in {"ConfigPath", "BatchSize", "Description", "Dir", "Epochs", "Evaluates", "Framework",
            "ModulesYamlPath", "Name", "Scripts", "SnapshotPath", "Status", "ProblemId",
            "TemplatePath", "TrainingGpuNum"} |-> IF f = "Epochs" THEN m.BatchSize ELSE m[f]]

\* updateCreateModel: the fields of the upsert request.
UpsertFields ==
    {"ConfigPath", "BatchSize", "Description", "Dir", "Epochs", "Evaluates", "Framework",
     "ModulesYamlPath", "Name", "Scripts", "SnapshotPath", "Status", "ProblemId",
     "TemplatePath", "TrainingGpuNum"}
upsertRequest(m) == [f \in UpsertFields |-> m[f]]

\* Mutant of responseAt: the failure response is not marked as the last one.
responseAtNotLast(position, m) ==
    IF position = "sendFail"
    THEN [Data |-> Nil, Err |-> [Code |-> 1], IsLast |-> FALSE]
    ELSE [Data |-> <<m>>, Err |-> [Code |-> 0], IsLast |-> TRUE]

\* UpdateFromLocal, lines 63 and 70: the response sent from each position.
responseAt(position, m) ==
    IF position = "sendFail"
    THEN [Data |-> Nil, Err |-> [Code |-> 1], IsLast |-> TRUE]
    ELSE [Data |-> <<m>>, Err |-> [Code |-> 0], IsLast |-> TRUE]

\* Mutant of afterDep: the loop is left after the first dependency handled.
afterDepBreak(yml, k) == IF k = 0 /\ Len(yml.Dependencies) > 0 THEN "copyDeps" ELSE "saveMetrics"

\* copyDependencies: the position after dependency k.
afterDep(yml, k) == IF k < Len(yml.Dependencies) THEN "copyDeps" ELSE "saveMetrics"

-----------------------------------------------------------------------------
(* Operations: one worker goroutine per run.                               *)

\* A provisioning step of run r ended: record it and what it wrote.
StepDone(r, step, path, written) ==
    /\ Inject(~written)
    /\ attempted' = [attempted EXCEPT ![r] = @ \cup {step}]
    /\ failed' = [failed EXCEPT ![r] = @ \/ ~written]
    /\ fs' = IF written THEN fs \cup {path} ELSE fs
    /\ issued' = [issued EXCEPT ![r] = IF written THEN @ \cup {"write"} ELSE @]

\* UpdateFromLocal, lines 57-59 and 72: make the channel, start the worker.
Invoke(r) ==
    /\ pc[r] = "idle"
    /\ \E file \in disk : req' = [req EXCEPT ![r] = file]
    /\ before' = [before EXCEPT ![r] = {q \in Runs : pc[q] = "done"}]
    /\ pc' = [pc EXCEPT ![r] = "load"]
    /\ UNCHANGED <<disk, faults, templateYaml, problem, defaultBuild, model, d, i, verified, attempts, dlErr,
                   responseChan, builds, models, fs, issued, storeFailed, attempted, failed,
                   downloaded, copied>>

\* Line 60.
GetTemplateYaml(r) ==
    /\ pc[r] = "load"
    /\ templateYaml' = [templateYaml EXCEPT ![r] = getTemplateYaml(req[r])]
    /\ pc' = [pc EXCEPT ![r] = "getProblem"]
    /\ UNCHANGED <<disk, faults, req, problem, defaultBuild, model, d, i, verified, attempts, dlErr,
                   responseChan, builds, models, fs, before, issued, storeFailed, attempted,
                   failed, downloaded, copied>>

\* Lines 61-65 with getProblem (224-237).
GetProblem(r) ==
    /\ pc[r] = "getProblem"
    /\ \E fails \in BOOLEAN :
          /\ Inject(fails)
          /\ LET got == getProblem(problemFindOne(templateYaml[r].Problem, fails))
             IN  /\ problem' = [problem EXCEPT ![r] = got.problem]
                 /\ pc' = [pc EXCEPT ![r] = IF got.err THEN "sendFail" ELSE "getDefaultBuild"]
                 /\ storeFailed' = [storeFailed EXCEPT ![r] =
                                       IF fails THEN @ \cup {"problemFindOne"} ELSE @]
    /\ issued' = [issued EXCEPT ![r] = @ \cup {"problemFindOne"}]
    /\ UNCHANGED <<disk, req, templateYaml, defaultBuild, model, d, i, verified, attempts, dlErr,
                   responseChan, builds, models, fs, before, attempted, failed,
                   downloaded, copied>>

\* Mutant of insertNeeded: the insert is not guarded by the lookup's result.
insertNeededAlways(result) == TRUE

\* getDefaultBuild, line 315: result.Id.IsZero().
insertNeeded(result) == result.Id = 0

\* getDefaultBuild, lines 306-315: the lookup.
FindDefaultBuild(r) ==
    /\ pc[r] = "getDefaultBuild"
    /\ \E fails \in BOOLEAN :
          /\ Inject(fails)
          /\ LET buildFindOneResp == buildFindOne(builds, problem[r].Id, "default", fails)
                 result == buildFindOneResp.Data
             IN  /\ defaultBuild' = [defaultBuild EXCEPT ![r] = result]
                 /\ pc' = [pc EXCEPT ![r] =
                              IF insertNeeded(result) THEN "insertBuild" ELSE "prepareModel"]
                 /\ storeFailed' = [storeFailed EXCEPT ![r] =
                                       IF fails THEN @ \cup {"buildFindOne"} ELSE @]
    /\ issued' = [issued EXCEPT ![r] = @ \cup {"buildFindOne"}]
    /\ UNCHANGED <<disk, req, templateYaml, problem, model, d, i, verified, attempts, dlErr,
                   responseChan, builds, models, fs, before, attempted, failed,
                   downloaded, copied>>

\* getDefaultBuild, lines 316-327: the insert after a lookup that gave a zero id.
InsertDefaultBuild(r) ==
    /\ pc[r] = "insertBuild"
    /\ \E fails \in BOOLEAN :
          /\ Inject(fails)
          /\ LET buildInsertOneResp ==
                     buildInsertOne(builds,
                                    [ProblemId |-> problem[r].Id, Name |-> "default",
                                     Status |-> "buildDefault"],
                                    fails)
             IN  /\ defaultBuild' = [defaultBuild EXCEPT ![r] = buildInsertOneResp.Data]
                 /\ builds' = buildInsertOneResp.builds
                 /\ storeFailed' = [storeFailed EXCEPT ![r] =
                                       IF fails THEN @ \cup {"buildInsertOne"} ELSE @]
    /\ issued' = [issued EXCEPT ![r] = @ \cup {"buildInsertOne"}]
    /\ pc' = [pc EXCEPT ![r] = "prepareModel"]
    /\ UNCHANGED <<disk, req, templateYaml, problem, model, d, i, verified, attempts, dlErr,
                   responseChan, models, fs, before, attempted, failed, downloaded, copied>>

\* Line 67.
PrepareModel(r) ==
    /\ pc[r] = "prepareModel"
    /\ model' = [model EXCEPT ![r] = prepareModel(templateYaml[r], defaultBuild[r].Id, problem[r])]
    /\ pc' = [pc EXCEPT ![r] = "copyConfig"]
    /\ UNCHANGED <<disk, faults, req, templateYaml, problem, defaultBuild, d, i, verified, attempts, dlErr,
                   responseChan, builds, models, fs, before, issued, storeFailed, attempted,
                   failed, downloaded, copied>>

\* copyModelFiles, line 76: copyConfig.
CopyConfig(r) ==
    /\ pc[r] = "copyConfig"
    /\ \E outcome \in CopyOutcomes :
          StepDone(r, "config", Join(model[r].Dir, Elem(templateYaml[r].Config)),
                   copyFiles(outcome).written)
    /\ pc' = [pc EXCEPT ![r] = "copyModulesYaml"]
    /\ UNCHANGED <<disk, req, templateYaml, problem, defaultBuild, model, d, i, verified, attempts,
                   dlErr, responseChan, builds, models, before, storeFailed, downloaded, copied>>

\* copyModelFiles, line 77: copyModulesYaml; then copyDependencies starts its loop.
CopyModulesYaml(r) ==
    /\ pc[r] = "copyModulesYaml"
    /\ \E outcome \in CopyOutcomes :
          StepDone(r, "modules", Join(model[r].Dir, <<"modules.yaml">>),
                   copyFiles(outcome).written)
    /\ d' = [d EXCEPT ![r] = 1]
    /\ pc' = [pc EXCEPT ![r] = afterDep(templateYaml[r], 0)]
    /\ UNCHANGED <<disk, req, templateYaml, problem, defaultBuild, model, i, verified, attempts,
                   dlErr, responseChan, builds, models, before, storeFailed, downloaded, copied>>

\* copyDependencies, lines 105-107 and 111-115: route one dependency; a source
\* that is not a valid URL is copied from the manifest's directory.
CopyDependency(r) ==
    /\ pc[r] = "copyDeps"
    /\ LET dep == templateYaml[r].Dependencies[d[r]]
           toPath == Join(model[r].Dir, Elem(dep.Destination))
       IN  IF isValidUrl(dep.Source)
           THEN /\ pc' = [pc EXCEPT ![r] = "download"]
                /\ i' = [i EXCEPT ![r] = 0]
                /\ UNCHANGED <<d, copied, attempted, failed, fs, issued, faults>>
           ELSE /\ \E outcome \in CopyOutcomes :
                      StepDone(r, DepNames[d[r]], toPath, copyFiles(outcome).written)
                /\ copied' = [copied EXCEPT ![r] = @ \cup {d[r]}]
                /\ pc' = [pc EXCEPT ![r] = afterDep(templateYaml[r], d[r])]
                /\ d' = [d EXCEPT ![r] = @ + 1]
                /\ UNCHANGED i
    /\ UNCHANGED <<disk, req, templateYaml, problem, defaultBuild, model, verified, attempts, dlErr,
                   responseChan, builds, models, before, storeFailed, downloaded>>

\* downloadWithCheck, lines 240-258: one pass of the loop body.
DownloadAttempt(r) ==
    /\ pc[r] = "download"
    /\ ~verified[r]
    /\ loopContinues(i[r])
    /\ LET dep == templateYaml[r].Dependencies[d[r]]
           toPath == Join(model[r].Dir, Elem(dep.Destination))
       IN  \E out \in DownloadOutcomes :
              /\ Inject(out # IntactDownload)
              /\ fs' = IF out.err THEN fs ELSE fs \cup {toPath}
              /\ issued' = [issued EXCEPT ![r] = IF out.err THEN @ ELSE @ \cup {"write"}]
              /\ IF attemptAccepted(out, dep)
                 THEN verified' = [verified EXCEPT ![r] = TRUE] /\ UNCHANGED i
                 ELSE i' = [i EXCEPT ![r] = @ + 1] /\ UNCHANGED verified
    /\ downloaded' = [downloaded EXCEPT ![r] = @ \cup {d[r]}]
    /\ attempts' = [attempts EXCEPT ![r] = @ + 1]
    /\ UNCHANGED <<disk, pc, req, templateYaml, problem, defaultBuild, model, d, dlErr,
                   responseChan, builds, models, before, storeFailed, attempted, failed, copied>>

\* downloadWithCheck, line 260: the loop is over, by break or by exhaustion.
DownloadReturn(r) ==
    /\ pc[r] = "download"
    /\ verified[r] \/ ~loopContinues(i[r])
    /\ dlErr' = [dlErr EXCEPT ![r] = downloadResult(verified[r])]
    /\ pc' = [pc EXCEPT ![r] = "downloadReturned"]
    /\ UNCHANGED <<disk, faults, req, templateYaml, problem, defaultBuild, model, d, i, verified, attempts,
                   responseChan, builds, models, fs, before, issued, storeFailed, attempted,
                   failed, downloaded, copied>>

\* copyDependencies, lines 108-110: the returned error is logged if there is
\* one; the loop goes to the next dependency.
DownloadChecked(r) ==
    /\ pc[r] = "downloadReturned"
    /\ attempted' = [attempted EXCEPT ![r] = @ \cup {DepNames[d[r]]}]
    /\ failed' = [failed EXCEPT ![r] = @ \/ ~verified[r]]
    /\ pc' = [pc EXCEPT ![r] = afterDep(templateYaml[r], d[r])]
    /\ d' = [d EXCEPT ![r] = @ + 1]
    /\ i' = [i EXCEPT ![r] = 0]
    /\ verified' = [verified EXCEPT ![r] = FALSE]
    /\ attempts' = [attempts EXCEPT ![r] = 0]
    /\ dlErr' = [dlErr EXCEPT ![r] = NotReturned]
    /\ UNCHANGED <<disk, faults, req, templateYaml, problem, defaultBuild, model, responseChan,
                   builds, models, fs, before, issued, storeFailed, downloaded, copied>>

\* copyModelFiles, line 79: saveMetrics.
SaveMetrics(r) ==
    /\ pc[r] = "saveMetrics"
    /\ \E outcome \in MetricsOutcomes :
          StepDone(r, "metrics", Join(model[r].Dir, <<"_default", "metrics.yaml">>),
                   outcome = "ok")
    /\ pc' = [pc EXCEPT ![r] = "copyTemplateYaml"]
    /\ UNCHANGED <<disk, req, templateYaml, problem, defaultBuild, model, d, i, verified, attempts,
                   dlErr, responseChan, builds, models, before, storeFailed, downloaded, copied>>

\* copyModelFiles, line 80: copyTemplateYaml.
CopyTemplateYaml(r) ==
    /\ pc[r] = "copyTemplateYaml"
    /\ \E outcome \in CopyOutcomes :
          StepDone(r, "template", Join(model[r].Dir, <<"template.yaml">>),
                   copyFiles(outcome).written)
    /\ pc' = [pc EXCEPT ![r] = "updateCreateModel"]
    /\ UNCHANGED <<disk, req, templateYaml, problem, defaultBuild, model, d, i, verified, attempts,
                   dlErr, responseChan, builds, models, before, storeFailed, downloaded, copied>>

\* Line 69 with updateCreateModel (279-303).
UpdateCreateModel(r) ==
    /\ pc[r] = "updateCreateModel"
    /\ \E fails \in BOOLEAN :
          /\ Inject(fails)
          /\ LET modelResp == modelUpdateUpsert(models, upsertRequest(model[r]), fails)
             IN  /\ model' = [model EXCEPT ![r] = modelResp.Data]
                 /\ models' = modelResp.models
                 /\ storeFailed' = [storeFailed EXCEPT ![r] =
                                       IF fails THEN @ \cup {"modelUpdateUpsert"} ELSE @]
    /\ issued' = [issued EXCEPT ![r] = @ \cup {"modelUpdateUpsert"}]
    /\ pc' = [pc EXCEPT ![r] = "sendOk"]
    /\ UNCHANGED <<disk, req, templateYaml, problem, defaultBuild, d, i, verified, attempts, dlErr,
                   responseChan, builds, fs, before, attempted, failed, downloaded, copied>>

\* Mutant of ReceiveResponse: the channel has a buffer of one, the send
\* completes and the worker returns with no receive by the caller.
ReceiveResponseBuffered(r) ==
    /\ pc[r] \in {"sendFail", "sendOk"}
    /\ pc' = [pc EXCEPT ![r] = "done"]
    /\ UNCHANGED <<disk, faults, req, templateYaml, problem, defaultBuild, model, d, i, verified, attempts,
                   dlErr, responseChan, builds, models, fs, before, issued, storeFailed, attempted,
                   failed, downloaded, copied>>

\* Lines 63 and 70: the send on the unbuffered channel completes when the
\* caller receives; the worker then returns.
ReceiveResponse(r) ==
    /\ pc[r] \in {"sendFail", "sendOk"}
    /\ responseChan' = [responseChan EXCEPT ![r] = Append(@, responseAt(pc[r], model[r]))]
    /\ pc' = [pc EXCEPT ![r] = "done"]
    /\ UNCHANGED <<disk, faults, req, templateYaml, problem, defaultBuild, model, d, i, verified, attempts,
                   dlErr, builds, models, fs, before, issued, storeFailed, attempted, failed,
                   downloaded, copied>>

Next ==
    \E r \in Runs :
        \/ Invoke(r)
        \/ GetTemplateYaml(r)
        \/ GetProblem(r)
        \/ FindDefaultBuild(r)
        \/ InsertDefaultBuild(r)
        \/ PrepareModel(r)
        \/ CopyConfig(r)
        \/ CopyModulesYaml(r)
        \/ CopyDependency(r)
        \/ DownloadAttempt(r)
        \/ DownloadReturn(r)
        \/ DownloadChecked(r)
        \/ SaveMetrics(r)
        \/ CopyTemplateYaml(r)
        \/ UpdateCreateModel(r)
        \/ ReceiveResponse(r)

Spec == Init /\ [][Next]_vars

SpecOne == InitOne /\ [][Next]_vars

\* The steps the worker goroutine of run r takes on its own.
Worker(r) ==
    \/ GetTemplateYaml(r)
    \/ GetProblem(r)
    \/ FindDefaultBuild(r)
    \/ InsertDefaultBuild(r)
    \/ PrepareModel(r)
    \/ CopyConfig(r)
    \/ CopyModulesYaml(r)
    \/ CopyDependency(r)
    \/ DownloadAttempt(r)
    \/ DownloadReturn(r)
    \/ DownloadChecked(r)
    \/ SaveMetrics(r)
    \/ CopyTemplateYaml(r)
    \/ UpdateCreateModel(r)

InitLive == InitState(ManifestFiles \cup {UpperCaseFile}, {"r1"}, Unlimited)

\* One run whose goroutine is scheduled whenever it can step, and whose caller
\* receives from the channel returned by UpdateFromLocal.
SpecLive ==
    /\ InitLive
    /\ [][Next]_vars
    /\ \A r \in Runs : WF_vars(Worker(r)) /\ WF_vars(ReceiveResponse(r))

-----------------------------------------------------------------------------
(* Properties.                                                             *)

Active == {r \in Runs : pc[r] \notin {"idle", "off"}}

\* The store answered the problem lookup of run r with an error.
ProblemLookupFailed(r) ==
    /\ "problemFindOne" \in issued[r]
    /\ \/ "problemFindOne" \in storeFailed[r]
       \/ ~\E p \in Problems : p.Title = templateYaml[r].Problem

\* The store applied the upsert of run r.
Upserted(r) ==
    /\ "modelUpdateUpsert" \in issued[r]
    /\ "modelUpdateUpsert" \notin storeFailed[r]

\* Run r is past getDefaultBuild.
ObtainedBuild(r) ==
    /\ "buildFindOne" \in issued[r]
    /\ pc[r] \notin {"getDefaultBuild", "insertBuild"}

\* The store has failed no build request so far.
NoBuildStoreFailure ==
    \A r \in Runs : storeFailed[r] \cap {"buildFindOne", "buildInsertOne"} = {}

DefaultBuildsOf(problemId) == {b \in builds : b.ProblemId = problemId /\ b.Name = "default"}

ModelsOf(problemId, name) == {m \in models : m.ProblemId = problemId /\ m.Name = name}

\* C1: every invocation sends exactly one response on its channel, never
\* zero and never two, and that response has IsLast = true: the caller never
\* holds more than one response, a worker has finished exactly when the caller
\* holds one, and every response held is marked last.
C1_ExactlyOneResponse ==
    \A r \in Runs :
        /\ Len(responseChan[r]) <= 1
        /\ (pc[r] = "done") <=> (Len(responseChan[r]) = 1)
        /\ \A k \in 1..Len(responseChan[r]) : responseChan[r][k].IsLast

C1_Witness ==
    \E r \in Runs :
        /\ pc[r] = "done"
        /\ Len(responseChan[r]) = 1
        /\ responseChan[r][1].Err.Code = 1
        /\ responseChan[r][1].IsLast

\* C2: runs for the same problem that executed getDefaultBuild, with no store
\* failure, end with exactly one "default" build of the problem in the store
\* and all hold that build's id.
C2_OneDefaultBuild ==
    \A r1, r2 \in Runs :
        (/\ NoBuildStoreFailure
         /\ ObtainedBuild(r1)
         /\ ObtainedBuild(r2)
         /\ problem[r1].Id = problem[r2].Id)
        => /\ Cardinality(DefaultBuildsOf(problem[r1].Id)) = 1
           /\ defaultBuild[r1].Id = defaultBuild[r2].Id

\* C3: a download no attempt of which was accepted is returned to
\* copyDependencies as an error.
C3_UnverifiedIsError ==
    \A r \in Runs :
        (pc[r] = "downloadReturned" /\ ~verified[r]) => dlErr[r] = AnError

\* C4: the store never holds two model records with the same (problem id,
\* name); and when a run that started after another run had finished has its
\* upsert applied for the same pair, the one record of the pair carries the
\* values the later run built from its manifest.
C4_OneModelPerKey ==
    /\ \A m1, m2 \in models :
          (m1.ProblemId = m2.ProblemId /\ m1.Name = m2.Name) => m1 = m2
    /\ \A r1, r2 \in Runs :
          (/\ r1 \in before[r2]
           /\ Upserted(r1)
           /\ Upserted(r2)
           /\ templateYaml[r1].Name = templateYaml[r2].Name
           /\ problem[r1].Id = problem[r2].Id)
          => LET built == prepareModel(templateYaml[r2], defaultBuild[r2].Id, problem[r2])
                 kept == ModelsOf(problem[r2].Id, templateYaml[r2].Name)
             IN  /\ Cardinality(kept) = 1
                 /\ \A m \in kept : \A f \in UpsertFields : m[f] = built[f]

C4_Witness ==
    \E r1, r2 \in Runs :
        /\ r1 \in before[r2]
        /\ Upserted(r1)
        /\ Upserted(r2)
        /\ pc[r2] = "done"
        /\ templateYaml[r1].Name = templateYaml[r2].Name
        /\ templateYaml[r1].HyperParameters.Basic.Epochs = 1
        /\ templateYaml[r2].HyperParameters.Basic.Epochs = 2
        /\ Cardinality(models) = 1

\* C5: when the problem lookup answers with an error, the one response of
\* the run is a failure, Err.Code = 1 and Data = nil.
C5_ProblemErrorFails ==
    \A r \in Runs :
        ProblemLookupFailed(r)
        => /\ pc[r] \in {"sendFail", "done"}
           /\ pc[r] = "done" =>
                 responseChan[r] = <<[Data |-> Nil, Err |-> [Code |-> 1], IsLast |-> TRUE]>>

C5_Witness ==
    \E r \in Runs :
        /\ ProblemLookupFailed(r)
        /\ "problemFindOne" \in storeFailed[r]
        /\ pc[r] = "done"
        /\ responseChan[r][1].Err.Code = 1

\* C6: when the manifest cannot be read or parsed, the run inserts no build,
\* writes no file, upserts no model, and its response is a failure (code 1).
C6_ManifestErrorAborts ==
    \A r \in Runs :
        (r \in Active /\ req[r].read # "ok")
        => /\ issued[r] \cap {"buildInsertOne", "write", "modelUpdateUpsert"} = {}
           /\ \A k \in 1..Len(responseChan[r]) : responseChan[r][k].Err.Code = 1

\* C7: when the store fails the model upsert, the response of the run is a
\* failure (code 1).
C7_UpsertErrorFails ==
    \A r \in Runs :
        "modelUpdateUpsert" \in storeFailed[r]
        => \A k \in 1..Len(responseChan[r]) : responseChan[r][k].Err.Code = 1

\* The part of s from position n + 4 up to the next "/": the authority of a
\* source whose scheme is its first n characters.
AuthorityAfter(s, n) ==
    LET tail == SubSeq(s, n + 4, Len(s))
        cut == Index(tail, "/")
    IN  IF cut = 0 THEN tail ELSE SubSeq(tail, 1, cut - 1)

\* s reads scheme "://" host: a scheme of letters (digits after the first
\* letter), a non-empty host, and only digits after the host's last ":".
AbsoluteUrl(s) ==
    \E n \in 1..(Len(s) - 4) :
        /\ \A k \in 1..n : s[k] \in Letters \/ (k > 1 /\ s[k] \in Digits)
        /\ SubSeq(s, n + 1, n + 3) = <<":", "/", "/">>
        /\ LET authority == AuthorityAfter(s, n)
           IN  /\ authority # <<>>
               /\ \A k \in 1..Len(authority) :
                     authority[k] = ":" =>
                         \/ \E j \in (k + 1)..Len(authority) : authority[j] = ":"
                         \/ \A j \in (k + 1)..Len(authority) : authority[j] \in Digits

\* The dependencies run r has handled so far.
Handled(r) ==
    IF pc[r] \in {"copyDeps", "download", "downloadReturned"}
    THEN 1..(d[r] - 1)
    ELSE IF "metrics" \in attempted[r] \/ pc[r] = "saveMetrics"
    THEN 1..Len(templateYaml[r].Dependencies)
    ELSE {}

\* C8: a dependency is fetched over the network exactly when its source is an
\* absolute URL (scheme and host present); any other source is copied from
\* the manifest's directory and never fetched; no dependency is both fetched
\* and copied.
C8_DownloadIffUrl ==
    \A r \in Runs :
        /\ downloaded[r] \cap copied[r] = {}
        /\ \A k \in downloaded[r] : AbsoluteUrl(templateYaml[r].Dependencies[k].Source)
        /\ \A k \in copied[r] : ~AbsoluteUrl(templateYaml[r].Dependencies[k].Source)
        /\ \A k \in Handled(r) : k \in downloaded[r] \cup copied[r]

C8_Witness ==
    \E r \in Runs :
        /\ pc[r] = "done"
        /\ downloaded[r] = {1}
        /\ copied[r] = {2}

\* C9: downloadWithCheck makes at most 10 attempts for a dependency; after a
\* failed attempt with fewer than 10 made it attempts again and does not
\* return; after an accepted attempt it makes no further attempt; it returns
\* only after an accepted attempt or after the 10th attempt.
C9_BoundedRetry ==
    \A r \in Runs :
        /\ attempts[r] <= 10
        /\ (pc[r] = "download" /\ ~verified[r] /\ attempts[r] < 10)
              => (ENABLED DownloadAttempt(r) /\ ~ENABLED DownloadReturn(r))
        /\ verified[r] => ~ENABLED DownloadAttempt(r)
        /\ pc[r] = "downloadReturned" => (verified[r] \/ attempts[r] = 10)

C9_Witness ==
    \E r \in Runs :
        /\ pc[r] = "downloadReturned"
        /\ ~verified[r]
        /\ attempts[r] = 10

\* C10: a run that is through directory provisioning has attempted all five
\* steps, every declared dependency included, whatever failed on the way; and
\* at every position of the provisioning the steps before it were attempted.
C10_AllStepsAttempted ==
    \A r \in Runs :
        /\ (pc[r] \in {"updateCreateModel", "sendOk"} \/ "modelUpdateUpsert" \in issued[r])
              => attempted[r] = StepsOf(templateYaml[r])
        /\ pc[r] = "copyModulesYaml" => attempted[r] = {"config"}
        /\ pc[r] \in {"copyDeps", "download", "downloadReturned"}
              => attempted[r] = {"config", "modules"} \cup {DepNames[k] : k \in 1..(d[r] - 1)}
        /\ pc[r] \in {"saveMetrics", "copyTemplateYaml"}
              => {DepNames[k] : k \in 1..Len(templateYaml[r].Dependencies)} \subseteq attempted[r]
        /\ pc[r] = "copyTemplateYaml" => "metrics" \in attempted[r]

C10_Witness ==
    \E r \in Runs :
        /\ pc[r] = "updateCreateModel"
        /\ Len(templateYaml[r].Dependencies) = 2
        /\ fs = {}
        /\ failed[r]
        /\ attempted[r] = {"config", "modules", "dep1", "dep2", "metrics", "template"}

\* The record run r built from its manifest, problem and build.
Built(r) == prepareModel(templateYaml[r], defaultBuild[r].Id, problem[r])

\* The response of run r is the plain success: code 0 carrying the record
\* the run built, with nothing that tells a failure.
PlainSuccess(resp, r) ==
    /\ resp.Err.Code = 0
    /\ resp.Data # Nil
    /\ \A f \in UpsertFields : resp.Data[1][f] = Built(r)[f]

\* C11: a run in which a provisioning step or a dependency failed does not
\* answer with the plain success response a run without failures gives.
C11_FailureIsVisible ==
    \A r \in Runs :
        failed[r] /\ storeFailed[r] = {} =>
            \A k \in 1..Len(responseChan[r]) : ~PlainSuccess(responseChan[r][k], r)

\* Positions at which the record of prepareModel exists and the upsert
\* request has not been answered yet.
RecordBuilt(r) ==
    pc[r] \in {"copyConfig", "copyModulesYaml", "copyDeps", "download",
               "downloadReturned", "saveMetrics", "copyTemplateYaml",
               "updateCreateModel"}

\* C12: the record built by prepareModel and the request sent to the store
\* carry a metrics map and an evaluates map, each with the one key Hex(build
\* id): the manifest's metric list, and that list with the default status.
C12_MetricsAndEvaluates ==
    \A r \in Runs :
        RecordBuilt(r) =>
            LET key == Hex(defaultBuild[r].Id)
                list == templateYaml[r].Metrics
            IN  /\ model[r].Evaluates = (key :> [Metrics |-> list, Status |-> "evaluateDefault"])
                /\ "Evaluates" \in DOMAIN upsertRequest(model[r])
                /\ model[r].Metrics = (key :> list)
                /\ "Metrics" \in DOMAIN upsertRequest(model[r])

\* The store failed while run r looked up or inserted its default build.
BuildStoreFailed(r) == storeFailed[r] \cap {"buildFindOne", "buildInsertOne"} # {}

\* C13: a store failure during the default build lookup or insert aborts the
\* run: no insert follows a failed lookup, no model is upserted, and the
\* terminal response carries code 1.
C13_BuildStoreErrorAborts ==
    \A r \in Runs :
        BuildStoreFailed(r) =>
            /\ "buildFindOne" \in storeFailed[r] => "buildInsertOne" \notin issued[r]
            /\ "modelUpdateUpsert" \notin issued[r]
            /\ \A k \in 1..Len(responseChan[r]) : responseChan[r][k].Err.Code = 1

\* The phase of a position, in the order the claim gives: manifest load,
\* problem lookup, default build lookup and insert, record construction, file
\* materialization, upsert, terminal response.
Phase(position) ==
    CASE position \in {"idle", "off"} -> 0
      [] position = "load" -> 1
      [] position = "getProblem" -> 2
      [] position = "getDefaultBuild" -> 3
      [] position = "insertBuild" -> 4
      [] position = "prepareModel" -> 5
      [] position \in {"copyConfig", "copyModulesYaml", "copyDeps", "download",
                       "downloadReturned", "saveMetrics", "copyTemplateYaml"} -> 6
      [] position = "updateCreateModel" -> 7
      [] position \in {"sendOk", "sendFail"} -> 8
      [] position = "done" -> 9

StepOrder(r) ==
    /\ "buildFindOne" \in issued[r] => "problemFindOne" \in issued[r] /\ Phase(pc[r]) >= 4
    /\ "buildInsertOne" \in issued[r] => "buildFindOne" \in issued[r] /\ Phase(pc[r]) >= 5
    /\ model[r] # ZeroModel => "buildFindOne" \in issued[r] /\ Phase(pc[r]) >= 6
    /\ "write" \in issued[r] =>
          /\ problem[r] \in Problems
          /\ Phase(pc[r]) >= 6
    /\ Phase(pc[r]) \in {6, 7} => model[r] = Built(r)
    /\ attempted[r] # {} => Phase(pc[r]) >= 6
    /\ "modelUpdateUpsert" \in issued[r] =>
          /\ attempted[r] = StepsOf(templateYaml[r])
          /\ pc[r] \in {"sendOk", "done"}
    /\ pc[r] = "sendOk" => "modelUpdateUpsert" \in issued[r]
    /\ \A k \in 1..Len(responseChan[r]) :
          /\ pc[r] = "done"
          /\ responseChan[r][k].Err.Code = 0 => "modelUpdateUpsert" \in issued[r]

\* C14: the steps of a run occur in the order manifest load, problem lookup,
\* build lookup (and insert), record construction, file materialization,
\* upsert, response: a run never goes back to an earlier phase, no file is
\* written before the problem is resolved, the upsert is issued only after
\* every provisioning step was attempted and never a second time, and the
\* success response follows the upsert.
C14_StepOrder ==
    /\ [](\A r \in Runs : StepOrder(r))
    /\ [][\A r \in Runs :
             /\ Phase(pc'[r]) >= Phase(pc[r])
             /\ "modelUpdateUpsert" \in issued[r] => models' = models]_vars

C14_Witness ==
    \E r \in Runs :
        /\ pc[r] = "done"
        /\ responseChan[r][1].Err.Code = 0
        /\ {"write", "modelUpdateUpsert"} \subseteq issued[r]
        /\ {"dep1", "dep2"} \subseteq attempted[r]

\* strings.ToLower on the digests the manifests carry.
ToLower(str) == CASE str = "AB" -> "ab" [] str = "CD" -> "cd" [] OTHER -> str

\* The attempt out fetched the expected number of bytes and a digest equal
\* to the expected one up to letter case.
MatchesIgnoringCase(out, dep) ==
    /\ ~out.err
    /\ out.nBytes = dep.Size
    /\ out.sum # Nil
    /\ ToLower(getSha265(out)) = ToLower(dep.Sha256)

\* C15: an attempt whose byte count equals the expected size and whose digest
\* equals the expected digest up to letter case is accepted: it ends the
\* retry loop of the dependency being downloaded.
C15_CaseInsensitiveDigest ==
    \A r \in Runs :
        pc[r] = "download" =>
            \A out \in DownloadOutcomes :
                MatchesIgnoringCase(out, templateYaml[r].Dependencies[d[r]]) =>
                    attemptAccepted(out, templateYaml[r].Dependencies[d[r]])

\* C16: a run whose problem lookup failed issues nothing but that lookup and
\* attempts no provisioning step; none of its steps, from the manifest load
\* to the failure response, changes the builds, the models or the files.
C16_FailedLookupChangesNothing ==
    /\ [](\A r \in Runs :
             ProblemLookupFailed(r) =>
                 /\ issued[r] = {"problemFindOne"}
                 /\ attempted[r] = {}
                 /\ pc[r] \in {"sendFail", "done"})
    /\ [][\A r \in Runs :
             /\ pc'[r] # pc[r]
             /\ Phase(pc[r]) <= 2 \/ ProblemLookupFailed(r)
             => UNCHANGED <<builds, models, fs>>]_vars

C16_Witness ==
    \E r \in Runs :
        /\ ProblemLookupFailed(r)
        /\ pc[r] = "done"
        /\ builds # {}
        /\ models # {}
        /\ fs # {}

\* Run first had answered before run later was invoked, and both are past
\* getDefaultBuild for the same problem.
OneAfterTheOther(first, later) ==
    /\ first \in before[later]
    /\ ObtainedBuild(first)
    /\ ObtainedBuild(later)
    /\ problem[first] \in Problems
    /\ problem[later] = problem[first]

\* No build lookup was answered with an error so far.
NoBuildLookupFailure == \A r \in Runs : "buildFindOne" \notin storeFailed[r]

AtSend(r) == pc[r] \in {"sendFail", "sendOk"}

\* C18: the worker leaves its send only by the caller's receive, which takes
\* the response as sent (while the caller does not receive, the worker stays
\* at the send and the response is not dropped); with a caller that
\* receives, every started worker terminates.
C18_WorkerEndsWithReceive ==
    /\ [][\A r \in Runs :
             AtSend(r) /\ pc'[r] # pc[r] =>
                 /\ pc'[r] = "done"
                 /\ responseChan'[r] = Append(responseChan[r], responseAt(pc[r], model[r]))]_vars
    /\ \A r \in Runs : (pc[r] = "load") ~> AtSend(r)
    /\ \A r \in Runs : AtSend(r) ~> (pc[r] = "done")

C18_Witness ==
    \E r \in Runs :
        /\ pc[r] = "sendOk"
        /\ responseChan[r] = <<>>
        /\ "modelUpdateUpsert" \in issued[r]

====
